---- MODULE Spec2Model ----
(***************************************************************************)
(* EIS stack simulator (src/eis_ui_study.py): the single-cell impedance    *)
(* model cell_impedance and the stack / diagnostics pipeline of main.      *)
(*                                                                         *)
(* The program computes in binary floating point (float64, complex128).    *)
(* The model keeps that arithmetic: a real is a pair (m, e) standing for   *)
(* m * 2^e with a mantissa of Precision bits, every operation rounds to    *)
(* nearest, ties to even, and a complex number is a pair of such reals.    *)
(* Only the mantissa width is reduced (Precision instead of 53 bits); the  *)
(* exponent is unbounded, so overflow and underflow are not modelled.      *)
(***************************************************************************)
EXTENDS Integers, Sequences, FiniteSets

VARIABLES pc, num_cells, freq, params, Z_cells, Z_stack, diag, args, ret

vars == <<pc, num_cells, freq, params, Z_cells, Z_stack, diag, args, ret>>

(***************************************************************************)
(* Bounds of the model.                                                    *)
(***************************************************************************)
\* mantissa width of the model's floating point numbers (float64 has 53)
Precision == 8
\* cells a run may stack (the slider of main allows up to 5)
MaxCells == 2
\* samples of the frequency grid (np.logspace(-1, 5, 300) has 300)
GridLen == 3

(***************************************************************************)
(* Binary floating point, round to nearest even.                           *)
(***************************************************************************)
Pow2(n) == 2 ^ n

RECURSIVE BitLen(_)
BitLen(n) == IF n = 0 THEN 0 ELSE 1 + BitLen(n \div 2)

IAbs(n) == IF n < 0 THEN -n ELSE n

ISign(n) == IF n < 0 THEN -1 ELSE 1

Zero == [m |-> 0, e |-> 0]

\* the float nearest to M * 2^e0 (M any integer)
Normalize(M, e0) ==
    IF M = 0 THEN Zero
    ELSE LET a == IAbs(M)
             k == BitLen(a) - Precision
         IN  IF k <= 0
             THEN [m |-> ISign(M) * a * Pow2(-k), e |-> e0 + k]
             ELSE LET q == a \div Pow2(k)
                      r == a % Pow2(k)
                      h == Pow2(k - 1)
                      up == r > h \/ (r = h /\ q % 2 = 1)
                      q1 == IF up THEN q + 1 ELSE q
                  IN  IF q1 = Pow2(Precision)
                      THEN [m |-> ISign(M) * Pow2(Precision - 1), e |-> e0 + k + 1]
                      ELSE [m |-> ISign(M) * q1, e |-> e0 + k]

FromInt(n) == Normalize(n, 0)

FNeg(a) == [m |-> -a.m, e |-> a.e]

FAbs(a) == [m |-> IAbs(a.m), e |-> a.e]

FAdd(a, b) ==
    IF a.m = 0 THEN b
    ELSE IF b.m = 0 THEN a
    ELSE LET hi == IF a.e >= b.e THEN a ELSE b
             lo == IF a.e >= b.e THEN b ELSE a
             d == hi.e - lo.e
         IN  IF d > Precision + 1 THEN hi
             ELSE Normalize(hi.m * Pow2(d) + lo.m, lo.e)

FSub(a, b) == FAdd(a, FNeg(b))

FMul(a, b) == Normalize(a.m * b.m, a.e + b.e)

\* a / b for b # 0: the quotient to Precision + 2 bits and a sticky bit
FDiv(a, b) ==
    IF a.m = 0 THEN Zero
    ELSE LET n == IAbs(a.m) * Pow2(Precision + 2)
             q == n \div IAbs(b.m)
             sticky == IF n % IAbs(b.m) = 0 THEN 0 ELSE 1
         IN  Normalize(ISign(a.m) * ISign(b.m) * (2 * q + sticky),
                       a.e - b.e - Precision - 3)

RECURSIVE ISqrtIn(_, _, _)
\* the largest r in lo..hi with r * r <= n (lo * lo <= n < (hi + 1)^2)
ISqrtIn(n, lo, hi) ==
    IF lo = hi THEN lo
    ELSE LET mid == (lo + hi + 1) \div 2
         IN  IF mid * mid <= n THEN ISqrtIn(n, mid, hi)
             ELSE ISqrtIn(n, lo, mid - 1)

ISqrt(n) == ISqrtIn(n, 0, Pow2(Precision + 2))

\* sqrt(a) for a >= 0
FSqrt(a) ==
    IF a.m = 0 THEN Zero
    ELSE LET s == IF (a.e - (Precision + 3)) % 2 = 0
                  THEN Precision + 3 ELSE Precision + 4
             M == a.m * Pow2(s)
             r == ISqrt(M)
             sticky == IF r * r = M THEN 0 ELSE 1
         IN  Normalize(2 * r + sticky, ((a.e - s) \div 2) - 1)

FLt(a, b) == FSub(a, b).m < 0

FLe(a, b) == FSub(a, b).m <= 0

\* the float nearest to the rational n / d (n, d > 0): a decimal literal
Lit(n, d) ==
    LET s == BitLen(d) + Precision + 2 - BitLen(n)
        q == (n * Pow2(s)) \div d
        sticky == IF (n * Pow2(s)) % d = 0 THEN 0 ELSE 1
    IN  Normalize(2 * q + sticky, -s - 1)

One == FromInt(1)

Two == FromInt(2)

\* np.pi: the float nearest to pi
Pi == Normalize(3294199, -20)

(***************************************************************************)
(* Complex numbers (complex128): a pair of floats.  CNaN stands for every  *)
(* complex value with an infinite or NaN component; it arises from a       *)
(* division by 0+0j, which numpy answers with inf+nanj and a warning, and  *)
(* every later operation on it stays non-finite.                           *)
(***************************************************************************)
C(x, y) == [re |-> x, im |-> y, nan |-> FALSE]

CNaN == [re |-> Zero, im |-> Zero, nan |-> TRUE]

\* a real operand of a complex operation is cast to x + 0j
CReal(x) == C(x, Zero)

COne == CReal(One)

\* the literal 1j
CJ == C(Zero, One)

CAdd(a, b) ==
    IF a.nan \/ b.nan THEN CNaN
    ELSE C(FAdd(a.re, b.re), FAdd(a.im, b.im))

CMul(a, b) ==
    IF a.nan \/ b.nan THEN CNaN
    ELSE C(FSub(FMul(a.re, b.re), FMul(a.im, b.im)),
           FAdd(FMul(a.re, b.im), FMul(a.im, b.re)))

\* complex division as numpy does it (Smith's method)
CDiv(a, b) ==
    IF a.nan \/ b.nan THEN CNaN
    ELSE IF b.re.m = 0 /\ b.im.m = 0 THEN CNaN
    ELSE IF FLe(FAbs(b.im), FAbs(b.re))
         THEN LET rat == FDiv(b.im, b.re)
                  scl == FDiv(One, FAdd(b.re, FMul(b.im, rat)))
              IN  C(FMul(FAdd(a.re, FMul(a.im, rat)), scl),
                    FMul(FSub(a.im, FMul(a.re, rat)), scl))
         ELSE LET rat == FDiv(b.re, b.im)
                  scl == FDiv(One, FAdd(b.im, FMul(b.re, rat)))
              IN  C(FMul(FAdd(FMul(a.re, rat), a.im), scl),
                    FMul(FSub(FMul(a.im, rat), a.re), scl))

Hypot(x, y) == FSqrt(FAdd(FMul(x, x), FMul(y, y)))

\* np.sqrt of a complex number: the principal square root
CSqrt(z) ==
    IF z.nan THEN CNaN
    ELSE IF z.re.m = 0 /\ z.im.m = 0 THEN z
    ELSE IF z.re.m >= 0
         THEN LET t == FSqrt(FMul(FAdd(z.re, Hypot(z.re, z.im)), Lit(1, 2)))
              IN  C(t, FDiv(z.im, FMul(Two, t)))
         ELSE LET t == FSqrt(FMul(FAdd(FNeg(z.re), Hypot(z.re, z.im)), Lit(1, 2)))
                  y == FDiv(FAbs(z.im), FMul(Two, t))
              IN  C(y, IF z.im.m < 0 THEN FNeg(t) ELSE t)

\* np.abs of a complex number
CAbs(z) == Hypot(z.re, z.im)

(***************************************************************************)
(* cell_impedance: Rs + [Rct || Cdl] + Warburg, elementwise over freq.     *)
(***************************************************************************)
omega(f) == FMul(FMul(Two, Pi), f)

Zc(w, Cdl) == CDiv(COne, CMul(CMul(CJ, CReal(w)), CReal(Cdl)))

\* a slip: the real square root of omega in place of the complex one of j omega
Zw_RealSqrt(w, sigma) == CDiv(CReal(sigma), CReal(FSqrt(w)))

Zw(w, sigma) == CDiv(CReal(sigma), CSqrt(CMul(CJ, CReal(w))))

Z_parallel(Rct, zc) == CDiv(COne, CAdd(CReal(FDiv(One, Rct)), CDiv(COne, zc)))

\* the value returned for one sample f of freq
ZAt(f, Rs, Rct, Cdl, sigma) ==
    CAdd(CAdd(CReal(Rs), Z_parallel(Rct, Zc(omega(f), Cdl))), Zw(omega(f), sigma))

\* The call: exc is the exception that leaves the function ("none" when it
\* returns), Z the returned array.  1/Rct is a division of Python floats and
\* raises ZeroDivisionError for Rct = 0; the array operations never raise.
cell_impedance(fr, Rs, Rct, Cdl, sigma) ==
    IF Rct.m = 0
    THEN [exc |-> "ZeroDivisionError", Z |-> <<>>]
    ELSE [exc |-> "none",
          Z |-> [k \in 1..Len(fr) |-> ZAt(fr[k], Rs, Rct, Cdl, sigma)]]

(***************************************************************************)
(* numpy reductions used by main.                                          *)
(***************************************************************************)
RECURSIVE ColSum(_, _, _)
\* cells[1][k] + cells[2][k] + ... + cells[n][k], added in that order
ColSum(cells, k, n) ==
    IF n = 1 THEN cells[1][k]
    ELSE CAdd(ColSum(cells, k, n - 1), cells[n][k])

\* a slip: the stack is the curve of the last cell computed, not the sum
SumAxis0_LastCell(cells) == cells[Len(cells)]

RECURSIVE RowSum(_, _)
RowSum(row, n) ==
    IF n = 1 THEN row[1]
    ELSE CAdd(RowSum(row, n - 1), row[n])

\* a slip: np.sum(cells, axis=1), one sum per cell instead of one per sample
SumAxis1(cells) ==
    [i \in 1..Len(cells) |-> RowSum(cells[i], Len(cells[i]))]

\* np.sum(cells, axis=0) for a non-empty list of arrays of one length
SumAxis0(cells) ==
    [k \in 1..Len(cells[1]) |-> ColSum(cells, k, Len(cells))]

RECURSIVE ArgMinUpTo(_, _)
\* position (from 1) of the first smallest entry among a[1..n]
ArgMinUpTo(a, n) ==
    IF n = 1 THEN 1
    ELSE LET b == ArgMinUpTo(a, n - 1)
         IN  IF FLt(a[n], a[b]) THEN n ELSE b

RECURSIVE ArgMinLastUpTo(_, _)
ArgMinLastUpTo(a, n) ==
    IF n = 1 THEN 1
    ELSE LET b == ArgMinLastUpTo(a, n - 1)
         IN  IF FLe(a[n], a[b]) THEN n ELSE b

\* a slip: of several smallest entries the last is taken
ArgMin_LastOnTie(a) == ArgMinLastUpTo(a, Len(a)) - 1

\* np.argmin(a): the index (from 0) of the first smallest entry
ArgMin(a) == ArgMinUpTo(a, Len(a)) - 1

RECURSIVE ArgMaxUpTo(_, _)
ArgMaxUpTo(a, n) ==
    IF n = 1 THEN 1
    ELSE LET b == ArgMaxUpTo(a, n - 1)
         IN  IF FLt(a[b], a[n]) THEN n ELSE b

\* np.argmax(a): the index (from 0) of the first largest entry
ArgMax(a) == ArgMaxUpTo(a, Len(a)) - 1

(***************************************************************************)
(* Inputs.  The sliders of main give Python floats inside their ranges;    *)
(* the model draws a few values of each range.                             *)
(***************************************************************************)
\* Rs slider: 0.01 .. 2.0, default 0.1
RsValues == {Lit(1, 10)}

\* Rct slider: 0.1 .. 10.0, default 1.0
RctValues == {One, FromInt(10)}

\* log10(Cdl) slider: -6.0 .. -2.0, default -4.0 (whole values only)
LogCdlValues == {-4, -2}

\* sigma slider: 0.01 .. 1.0, default 0.1
SigmaValues == {Lit(1, 10)}

\* 10 ** log_cdl for a whole log_cdl <= 0
Pow10(l) == Lit(1, 10 ^ (-l))

\* samples a grid is drawn from, in ascending order
FreqBase == <<Lit(1, 10), Lit(1, 2), One, Lit(3, 2), FromInt(100)>>

\* The frequency grid: np.logspace(-1, 5, 300) is strictly increasing and
\* positive; the model takes every strictly increasing grid of GridLen
\* samples of FreqBase.
Grids ==
    { [k \in 1..GridLen |-> FreqBase[ix[k]]] :
        ix \in { jx \in [1..GridLen -> 1..Len(FreqBase)] :
                   \A k \in 1..(GridLen - 1) : jx[k] < jx[k + 1] } }

(***************************************************************************)
(* main: the stack pipeline.                                               *)
(***************************************************************************)
NoCall == [fr |-> <<>>, Rs |-> Zero, Rct |-> Zero, Cdl |-> Zero, sigma |-> Zero]

NoRet == [exc |-> "pending", Z |-> <<>>]

Init ==
    /\ pc = "slider"
    /\ num_cells = 0
    /\ freq = <<>>
    /\ params = <<>>
    /\ Z_cells = <<>>
    /\ Z_stack = <<>>
    /\ diag = <<>>
    /\ args = NoCall
    /\ ret = NoRet

\* lines 98-101: the number of cells, the grid, the empty list of curves
Configure ==
    /\ pc = "slider"
    /\ \E n \in 1..MaxCells : num_cells' = n
    /\ \E g \in Grids : freq' = g
    /\ Z_cells' = <<>>
    /\ pc' = "cells"
    /\ UNCHANGED <<params, Z_stack, diag, args, ret>>

\* a slip: Rct is kept across turns of the loop, so every cell after the
\* first is computed with the first cell's Rct
CellStep_SharedRct ==
    /\ pc = "cells"
    /\ Len(Z_cells) < num_cells
    /\ \E Rs \in RsValues, Rct \in RctValues, log_cdl \in LogCdlValues,
          sigma \in SigmaValues :
          LET Cdl == Pow10(log_cdl)
              used == IF params = <<>> THEN Rct ELSE params[1].Rct
              Z == cell_impedance(freq, Rs, used, Cdl, sigma).Z
          IN  /\ params' = Append(params,
                     [Rs |-> Rs, Rct |-> Rct, Cdl |-> Cdl, sigma |-> sigma])
              /\ Z_cells' = Append(Z_cells, Z)
    /\ UNCHANGED <<pc, num_cells, freq, Z_stack, diag, args, ret>>

\* lines 104-113: one turn of the per-cell loop, for cell Len(Z_cells)
CellStep ==
    /\ pc = "cells"
    /\ Len(Z_cells) < num_cells
    /\ \E Rs \in RsValues, Rct \in RctValues, log_cdl \in LogCdlValues,
          sigma \in SigmaValues :
          LET Cdl == Pow10(log_cdl)
              Z == cell_impedance(freq, Rs, Rct, Cdl, sigma).Z
          IN  /\ params' = Append(params,
                     [Rs |-> Rs, Rct |-> Rct, Cdl |-> Cdl, sigma |-> sigma])
              /\ Z_cells' = Append(Z_cells, Z)
    /\ UNCHANGED <<pc, num_cells, freq, Z_stack, diag, args, ret>>

\* line 116: the stack impedance, once the loop has ended.  The plots of
\* lines 119-123 read Z_stack and Z_cells and change neither.
StackSum ==
    /\ pc = "cells"
    /\ Len(Z_cells) = num_cells
    /\ Z_stack' = SumAxis0(Z_cells)
    /\ pc' = "diag"
    /\ UNCHANGED <<num_cells, freq, params, Z_cells, diag, args, ret>>

\* a slip: tau from the frequency stored at the peak, 1 / (2 pi f_peak),
\* instead of from the peak's index
Diagnostic_TauFromFrequency(fr, Z) ==
    LET idx_1Hz == ArgMin([k \in 1..Len(fr) |-> FAbs(FSub(fr[k], One))])
        peak == ArgMax([k \in 1..Len(Z) |-> FNeg(Z[k].im)])
        tau == FDiv(One, FMul(FMul(Two, Pi), fr[peak + 1]))
    IN  [idx_1Hz |-> idx_1Hz, mag |-> CAbs(Z[idx_1Hz + 1]), tau |-> tau]

\* the diagnostics main derives from one cell's curve Z (lines 128-131),
\* as computed, before st.write formats them to two decimals
Diagnostic(fr, Z) ==
    LET idx_1Hz == ArgMin([k \in 1..Len(fr) |-> FAbs(FSub(fr[k], One))])
        tau == FMul(FDiv(One, FMul(Two, Pi)),
                    FromInt(ArgMax([k \in 1..Len(Z) |-> FNeg(Z[k].im)])))
    IN  [idx_1Hz |-> idx_1Hz, mag |-> CAbs(Z[idx_1Hz + 1]), tau |-> tau]

\* a slip: every turn reads Z, the variable the first loop left at the last
\* cell's curve
DiagStep_StaleZ ==
    /\ pc = "diag"
    /\ Len(diag) < num_cells
    /\ diag' = Append(diag, Diagnostic(freq, Z_cells[num_cells]))
    /\ pc' = IF Len(diag) + 1 = num_cells THEN "done" ELSE "diag"
    /\ UNCHANGED <<num_cells, freq, params, Z_cells, Z_stack, args, ret>>

\* lines 127-132: one turn of the diagnostics loop, for cell Len(diag)
DiagStep ==
    /\ pc = "diag"
    /\ Len(diag) < num_cells
    /\ diag' = Append(diag, Diagnostic(freq, Z_cells[Len(diag) + 1]))
    /\ pc' = IF Len(diag) + 1 = num_cells THEN "done" ELSE "diag"
    /\ UNCHANGED <<num_cells, freq, params, Z_cells, Z_stack, args, ret>>

Next == Configure \/ CellStep \/ StackSum \/ DiagStep

Spec == Init /\ [][Next]_vars

(***************************************************************************)
(* cell_impedance on its own: a call with arguments of any sign, as a      *)
(* caller other than main's sliders could make it.                         *)
(***************************************************************************)
CallSamples == {Zero, Lit(1, 10), FromInt(100)}

CallGrids ==
    UNION { [1..n -> CallSamples] : n \in 1..GridLen }

CallRs == {Zero, Lit(1, 10), Two}

CallRct == {Zero, One, FromInt(10)}

CallCdl == {Zero, Pow10(-4), Pow10(-2)}

CallSigma == {FNeg(Lit(1, 10)), Lit(1, 10), One}

InitCell ==
    /\ pc = "call"
    /\ args \in [fr : CallGrids, Rs : CallRs, Rct : CallRct, Cdl : CallCdl,
                 sigma : CallSigma]
    /\ ret = NoRet
    /\ num_cells = 0
    /\ freq = <<>>
    /\ params = <<>>
    /\ Z_cells = <<>>
    /\ Z_stack = <<>>
    /\ diag = <<>>

\* lines 8-13: the call returns its array or raises
CallCellImpedance ==
    /\ pc = "call"
    /\ ret' = cell_impedance(args.fr, args.Rs, args.Rct, args.Cdl, args.sigma)
    /\ pc' = "returned"
    /\ UNCHANGED <<num_cells, freq, params, Z_cells, Z_stack, diag, args>>

NextCell == CallCellImpedance

SpecCell == InitCell /\ [][NextCell]_vars

(***************************************************************************)
(* Comparison up to rounding.                                              *)
(***************************************************************************)
IMax(a, b) == IF a >= b THEN a ELSE b

\* |a - b| is at most n units in the last place of the larger of a, b
Near(a, b, n) == FLe(FAbs(FSub(a, b)), Normalize(n, IMax(a.e, b.e)))

\* units in the last place allowed between two ways of rounding one value
Tolerance == 4

(***************************************************************************)
(* cell_impedance: the circuit formula.                                    *)
(***************************************************************************)
ValidArgs(a) ==
    /\ a.Rs.m > 0 /\ a.Rct.m > 0 /\ a.Cdl.m > 0 /\ a.sigma.m > 0
    /\ \A k \in 1..Len(a.fr) : a.fr[k].m > 0

\* Z(f) in real and imaginary part, from the circuit: with x = omega Rct Cdl,
\* Zp = Rct (1 - jx) / (1 + x^2) and Zw = sigma (1 - j) / sqrt(2 omega)
CircuitRe(f, Rs, Rct, Cdl, sigma) ==
    LET x == FMul(FMul(omega(f), Rct), Cdl)
    IN  FAdd(FAdd(Rs, FDiv(Rct, FAdd(One, FMul(x, x)))),
             FDiv(sigma, FSqrt(FMul(Two, omega(f)))))

CircuitIm(f, Rs, Rct, Cdl, sigma) ==
    LET x == FMul(FMul(omega(f), Rct), Cdl)
    IN  FNeg(FAdd(FDiv(FMul(Rct, x), FAdd(One, FMul(x, x))),
                  FDiv(sigma, FSqrt(FMul(Two, omega(f))))))

\* C10: for valid parameters and positive frequencies the call returns, at
\* every sample, Z = Rs + Zp + Zw of the Randles circuit: its real and
\* imaginary parts are those of the circuit formula up to rounding, and the
\* Warburg term sigma / sqrt(j omega) has a positive real part and a negative
\* imaginary part of the same magnitude up to rounding.
C10_CircuitFormula ==
    (pc = "returned" /\ ValidArgs(args)) =>
        /\ ret.exc = "none"
        /\ \A k \in 1..Len(args.fr) :
              LET f == args.fr[k]
                  zw == Zw(omega(f), args.sigma)
                  z == ret.Z[k]
              IN  /\ ~z.nan
                  /\ zw.re.m > 0 /\ zw.im.m < 0
                  /\ Near(zw.re, FNeg(zw.im), Tolerance)
                  /\ Near(z.re, CircuitRe(f, args.Rs, args.Rct, args.Cdl, args.sigma),
                          Tolerance)
                  /\ Near(z.im, CircuitIm(f, args.Rs, args.Rct, args.Cdl, args.sigma),
                          Tolerance)

C10_Witness ==
    /\ pc = "returned"
    /\ ValidArgs(args)
    /\ Len(args.fr) = GridLen
    /\ args.fr[1] # args.fr[GridLen]
    /\ ret.exc = "none"

\* C2: a call with a parameter or a frequency that is not positive fails and
\* returns no curve.
C2_InvalidInputFails ==
    (pc = "returned" /\ ~ValidArgs(args)) => (ret.exc # "none" /\ ret.Z = <<>>)

(***************************************************************************)
(* main: the stack curve, the shapes, the diagnostics.                     *)
(***************************************************************************)
\* the curve of the cell with parameter record p on grid fr
CurveOf(fr, p) ==
    LET Z == cell_impedance(fr, p.Rs, p.Rct, p.Cdl, p.sigma).Z
    IN  SubSeq(Z, 1, Len(Z))

\* the curve of every cell, each computed from its own parameter record
OwnCurves ==
    LET own == [i \in 1..Len(params) |-> CurveOf(freq, params[i])]
    IN  SubSeq(own, 1, Len(params))

RECURSIVE SumRe(_, _, _)
\* the real parts at grid position k of curves 1..n, added up in that order
SumRe(curves, k, n) ==
    IF n = 1 THEN curves[1][k].re
    ELSE FAdd(SumRe(curves, k, n - 1), curves[n][k].re)

RECURSIVE SumIm(_, _, _)
SumIm(curves, k, n) ==
    IF n = 1 THEN curves[1][k].im
    ELSE FAdd(SumIm(curves, k, n - 1), curves[n][k].im)

Summed == pc \in {"diag", "done"}

\* C1: once the stack curve is computed, at every grid index it is the sum
\* over all cells of the cells' impedances on the same grid, real parts and
\* imaginary parts summed separately.
C1_StackIsSumOfCells ==
    Summed =>
        \A curves \in {OwnCurves} :
            \A k \in 1..Len(freq) :
                /\ ~Z_stack[k].nan
                /\ Z_stack[k].re = SumRe(curves, k, num_cells)
                /\ Z_stack[k].im = SumIm(curves, k, num_cells)

C1_Witness ==
    /\ pc = "diag"
    /\ num_cells = MaxCells
    /\ Z_cells[1] # Z_cells[MaxCells]
    /\ Z_stack # Z_cells[1]

\* C7: every curve has one value per grid entry: each cell's curve, and the
\* stack curve once computed, has the length of the grid.
C7_CurveLengths ==
    /\ \A i \in 1..Len(Z_cells) : DOMAIN Z_cells[i] = 1..Len(freq)
    /\ Summed => DOMAIN Z_stack = 1..Len(freq)

C7_Witness ==
    /\ pc = "done"
    /\ num_cells = MaxCells
    /\ Len(Z_stack) = GridLen
    /\ Len(Z_cells[MaxCells]) = GridLen

\* C8: the finished run holds exactly one curve and one diagnostic per cell,
\* in input order: the i-th curve is that of the i-th parameter set and the
\* i-th diagnostic is derived from the i-th curve.
C8_OnePerCellInOrder ==
    /\ Len(diag) <= Len(Z_cells)
    /\ Len(Z_cells) <= num_cells
    /\ Len(params) = Len(Z_cells)
    /\ pc = "done" =>
          /\ Len(Z_cells) = num_cells
          /\ Len(diag) = num_cells
          /\ \A i \in 1..num_cells :
                /\ Z_cells[i] = CurveOf(freq, params[i])
                /\ diag[i] = Diagnostic(freq, Z_cells[i])

C8_Witness ==
    /\ pc = "done"
    /\ num_cells = MaxCells
    /\ params[1] # params[MaxCells]
    /\ diag[1] # diag[MaxCells]

(***************************************************************************)
(* Exact comparison of distances to 1 Hz: a dyadic [n, e] is n * 2^e.      *)
(***************************************************************************)
IMin(a, b) == IF a <= b THEN a ELSE b

\* |f - 1| exactly
DistTo1(f) ==
    LET e == IMin(f.e, 0)
    IN  [n |-> IAbs(f.m * Pow2(f.e - e) - Pow2(-e)), e |-> e]

DyLt(a, b) ==
    LET e == IMin(a.e, b.e)
    IN  a.n * Pow2(a.e - e) < b.n * Pow2(b.e - e)

\* the lowest position (from 1) of the grid whose sample is nearest to 1.0
KStar ==
    CHOOSE k \in 1..Len(freq) :
        /\ \A j \in 1..Len(freq) : ~DyLt(DistTo1(freq[j]), DistTo1(freq[k]))
        /\ \A j \in 1..(k - 1) : DyLt(DistTo1(freq[k]), DistTo1(freq[j]))

\* C5: each cell's 1 Hz magnitude is |Z[k*]| at the lowest grid index k*
\* nearest to 1.0; when the grid holds 1.0 itself, k* is its index and the
\* magnitude is |Z(1.0)| as cell_impedance gives it for that one frequency.
C5_MagnitudeAt1Hz ==
    \A i \in 1..Len(diag) :
        /\ diag[i].idx_1Hz = KStar - 1
        /\ diag[i].mag = CAbs(Z_cells[i][KStar])
        /\ \A k \in 1..Len(freq) :
              freq[k] = One =>
                  /\ KStar = k
                  /\ diag[i].mag = CAbs(CurveOf(<<One>>, params[i])[1])

\* two samples are equally near to 1.0 and none is nearer
C5_Witness ==
    /\ pc = "done"
    /\ \E j \in 1..Len(freq) :
          /\ j # KStar
          /\ ~DyLt(DistTo1(freq[KStar]), DistTo1(freq[j]))
    /\ diag[1].idx_1Hz = KStar - 1

\* the first position (from 1) at which -Im of the curve Z is largest
KPeak(Z) ==
    CHOOSE k \in 1..Len(Z) :
        /\ \A j \in 1..Len(Z) : ~FLt(FNeg(Z[k].im), FNeg(Z[j].im))
        /\ \A j \in 1..(k - 1) : FLt(FNeg(Z[j].im), FNeg(Z[k].im))

\* the time constant reported for a peak at index k (from 0)
TauOfIndex(k) == FMul(FDiv(One, FMul(Two, Pi)), FromInt(k))

\* C6: each cell's tau is k_peak / (2 pi), k_peak the first index at which
\* -Im of the cell's curve is largest: a function of the index alone, one of
\* 0/(2 pi) .. (len - 1)/(2 pi), whatever frequency is stored at that index.
C6_TauFromPeakIndex ==
    \A i \in 1..Len(diag) :
        LET k == KPeak(Z_cells[i]) - 1
        IN  /\ diag[i].tau = TauOfIndex(k)
            /\ Near(diag[i].tau, FDiv(FromInt(k), FMul(Two, Pi)), Tolerance)
            /\ diag[i].tau \in { TauOfIndex(j) : j \in 0..(Len(freq) - 1) }

\* a peak at index 2, scenario of the reference behaviour: tau = 2 / (2 pi)
C6_Witness ==
    /\ pc = "done"
    /\ KPeak(Z_cells[1]) - 1 = 2
    /\ diag[1].tau = TauOfIndex(2)

(***************************************************************************)
(* Independence of the cells.                                              *)
(***************************************************************************)
RECURSIVE CurvesInOrder(_, _, _)
\* the curves held after computing cells order[1], .., order[n] in that
\* order, each stored at its own index; own[i] is the curve cell i's
\* computation yields
CurvesInOrder(own, order, n) ==
    [i \in { order[j] : j \in 1..n } |->
        IF i = order[n] THEN own[i]
        ELSE CurvesInOrder(own, order, n - 1)[i]]

Orders(n) == { o \in [1..n -> 1..n] : \A i, j \in 1..n : o[i] = o[j] => i = j }

====
